---- MODULE Spec2Model ----
(***************************************************************************)
(* Model of the deduper catalog (src/src/database.rs) and of the commands  *)
(* that drive it (src/src/main.rs): scan / process_file, stats, optimize   *)
(* and build.                                                              *)
(*                                                                         *)
(* The catalog is the SQLite table `files`: a set of rows, each carrying   *)
(* its rowid.  The SQL statements are modelled by what SQLite does with    *)
(* them: INSERT OR REPLACE removes every row that conflicts on the primary *)
(* key or on the partial unique index before it inserts, UPDATE checks the *)
(* unique index row by row in rowid order, SUM over no rows is NULL.       *)
(***************************************************************************)
EXTENDS Integers, Sequences, FiniteSets, TLC

VARIABLES
    files,      \* the rows of table `files`
    opt,        \* position of a running optimize command
    last,       \* history: the last catalog operation and what it returned
    fs,         \* the source files a scan reads: content and timestamp
    scan,       \* the running scan: its arguments, the shared source list
    queue,      \* the bounded channel between the two pools
    io,         \* the I/O pool: position and pending walk of each worker
    hw,         \* the hash pool: position and file in hand of each worker
    lock,       \* holder of the catalog mutex, 0 when free
    hist,       \* history: what the completed scans left in the catalog
    dest,       \* the entries of the destination tree of build
    bld,        \* the running build: arguments, stream, position, total
    unix        \* the platform of the build: symlink (unix) or copy

catVars == <<files, opt, last>>
scanVars == <<fs, scan, queue, io, hw, lock, hist>>
buildVars == <<dest, bld, unix>>
vars == <<files, opt, last, fs, scan, queue, io, hw, lock, hist,
          dest, bld, unix>>

----------------------------------------------------------------------------
(* Bounds and input domains *)

\* largest rowid the model lets an INSERT allocate
MaxRowid == 4

NULL == "NULL"

\* a hash worker that has built no File yet; no completed run of scan
NoFile == [path |-> NULL]
NoRun == [sources |-> <<>>]

\* column `optimized` when it is NULL; otherwise it holds an artifact name
NoArtifact == <<>>

\* largest --threads value tried
MaxThreads == 2

\* num_cpus::get() of the machine
NumCpus == 2

\* longest --sources list tried
MaxSources == 2

\* builds one behaviour runs
MaxBuilds == 1

\* --selector absent
NoSelector == "none"
Selectors == {"video", "image"}

\* --split-at absent (the option is a NonZeroUsize), and the thresholds tried
NoSplit == 0
SplitSizes == {100}

\* the files of the source trees; the extension decides the media type
Paths == {"a.mp4", "b.mp4", "c.jpg"}

\* contents the files of a scanned tree have; a content determines its hash
\* and its byte length
ScanContents == {"x", "z"}

\* timestamps an extractor can yield, in half seconds; NoTimestamp is None
NoTimestamp == -1
Timestamps == {3, 4}

\* byte lengths a transcoded artifact can have
TranscodedSizes == {40, 70}

----------------------------------------------------------------------------
(* Collaborators: hasher, metadata, classifier, timestamp conversion *)

file_hash(content) ==
    CASE content = "x" -> "h1"
      [] content = "y" -> "h2"
      [] content = "z" -> "h3"
      [] content = "w" -> "h4"

metadata_len(content) ==
    CASE content = "x" -> 40
      [] content = "y" -> 40
      [] content = "z" -> 70
      [] content = "w" -> 40

extension(path) ==
    CASE path = "a.mp4" -> "mp4"
      [] path = "b.mp4" -> "mp4"
      [] path = "c.jpg" -> "jpg"
      [] OTHER -> "bin"

extract_mimetype(path) ==
    CASE extension(path) = "mp4" -> "video"
      [] extension(path) = "jpg" -> "image"
      [] OTHER -> "application"

\* DateTime::timestamp(): whole seconds, the sub-second part is dropped
timestamp(t) == t \div 2

----------------------------------------------------------------------------
(* The catalog: table `files` and its statements *)

SetMax(S) == CHOOSE m \in S : \A n \in S : n <= m
SetMin(S) == CHOOSE m \in S : \A n \in S : m <= n

RowIds(tbl) == {r.rowid : r \in tbl}

\* the rowid SQLite gives a row inserted without one
NewRowid(tbl) == IF tbl = {} THEN 1 ELSE SetMax(RowIds(tbl)) + 1

SameClass(r, s) == r.blake3 = s.blake3 /\ r.size_bytes = s.size_bytes

ClassKeys(tbl) == {<<r.blake3, r.size_bytes>> : r \in tbl}

ClassOf(tbl, key) == {r \in tbl : <<r.blake3, r.size_bytes>> = key}

\* rows an INSERT OR REPLACE of `file` deletes: the row holding the primary
\* key, and the row holding the entry of uniq_original_per_group
Conflicts(tbl, file) ==
    {r \in tbl :
        \/ r.path = file.path
        \/ (file.is_original /\ r.is_original /\ SameClass(r, file))}

ToRow(file, id) ==
    [rowid |-> id, path |-> file.path, size_bytes |-> file.size_bytes,
     blake3 |-> file.blake3, created_at |-> timestamp(file.created_at),
     optimized |-> file.optimized, is_original |-> file.is_original,
     media_type |-> file.media_type]

insert_file_NoUniqueIndex(tbl, file) ==
    ({r \in tbl : r.path # file.path}) \cup {ToRow(file, NewRowid(tbl))}

insert_file_Append(tbl, file) ==
    tbl \cup {ToRow(file, NewRowid(tbl))}

insert_file_KeepOld(tbl, file) ==
    IF \E r \in tbl : r.path = file.path
    THEN tbl
    ELSE (tbl \ Conflicts(tbl, file)) \cup {ToRow(file, NewRowid(tbl))}

insert_file(tbl, file) ==
    (tbl \ Conflicts(tbl, file)) \cup {ToRow(file, NewRowid(tbl))}

count_files(tbl) == Cardinality(tbl)

\* the row ORDER BY created_at ASC, rowid ASC LIMIT 1 picks in r's class
Earliest(tbl, r) ==
    CHOOSE m \in tbl :
        /\ SameClass(m, r)
        /\ \A s \in tbl : SameClass(s, r) =>
              \/ m.created_at < s.created_at
              \/ (m.created_at = s.created_at /\ m.rowid <= s.rowid)

\* one row of the UPDATE: the new flag, and the check of the unique index
\* against the rows as they are at that moment
RECURSIVE MarkPass(_, _, _)
MarkPass(orig, cur, ids) ==
    IF ids = {} THEN [ok |-> TRUE, tbl |-> cur]
    ELSE LET id   == SetMin(ids)
             r    == CHOOSE x \in cur : x.rowid = id
             flag == (Earliest(orig, r).rowid = id)
             r2   == [r EXCEPT !.is_original = flag]
             clash == flag /\ \E s \in cur :
                          s.rowid # id /\ s.is_original /\ SameClass(s, r)
         IN  IF clash THEN [ok |-> FALSE, tbl |-> orig]
             ELSE MarkPass(orig, (cur \ {r}) \cup {r2}, ids \ {id})

mark_original_files(tbl) == MarkPass(tbl, tbl, RowIds(tbl))

count_original_files(tbl) == Cardinality({r \in tbl : r.is_original})

\* SUM(cnt - 1) over the given groups
RECURSIVE SumExtra(_, _)
SumExtra(tbl, groups) ==
    IF groups = {} THEN 0
    ELSE LET k == CHOOSE x \in groups : TRUE
         IN  (Cardinality(ClassOf(tbl, k)) - 1) + SumExtra(tbl, groups \ {k})

\* the groups HAVING cnt > 1; the SUM is NULL when there is none, and a NULL
\* does not convert to i64
count_redundant_files(tbl) ==
    LET groups == {k \in ClassKeys(tbl) : Cardinality(ClassOf(tbl, k)) > 1}
    IN  IF groups = {} THEN [ok |-> FALSE, val |-> NULL]
        ELSE [ok |-> TRUE, val |-> SumExtra(tbl, groups)]

FindUnoptimizedVideos(tbl) ==
    {r \in tbl : r.media_type = "video" /\ r.is_original /\ r.optimized = NoArtifact}

\* the columns File::try_from reads from a row
FileColumns ==
    {"created_at", "path", "size_bytes", "blake3", "optimized", "is_original",
     "media_type"}

\* the columns FIND_DUP_FILES selects
FindDupColumns == {"path", "size_bytes", "blake3", "created_at"}

\* File::try_from on a row that has the given columns: row.get of a column
\* the row lacks is an error
TryFromRow(columns, r) ==
    IF FileColumns \subseteq columns
    THEN [ok |-> TRUE, file |-> r]
    ELSE [ok |-> FALSE, file |-> NULL]

\* find_dup_files: the rows of the class, each through File::try_from, the
\* results collected into a Result (the first error is the result)
find_dup_files(tbl, blake3, size_bytes) ==
    LET rows == {r \in tbl : r.blake3 = blake3 /\ r.size_bytes = size_bytes}
        conv == {TryFromRow(FindDupColumns, r) : r \in rows}
    IN  IF \E c \in conv : ~c.ok
        THEN [ok |-> FALSE, rows |-> {}]
        ELSE [ok |-> TRUE, rows |-> {c.file : c \in conv}]

----------------------------------------------------------------------------
(* Commands at the level of catalog operations *)

CatalogInit ==
    /\ files = {}
    /\ opt = [pc |-> "idle", visited |-> {}]
    /\ last = [op |-> "none"]

\* no scan is running
ScanIdle ==
    /\ scan.pc = "idle" /\ scan.sources = <<>> /\ scan.threads = 0
    /\ queue = <<>>
    /\ io = [w \in 1..MaxThreads |-> [pc |-> "off", todo |-> {}]]
    /\ hw = [w \in 1..NumCpus |-> [pc |-> "off", path |-> NULL, file |-> NoFile]]
    /\ lock = 0
    /\ hist = [n |-> 0, prev |-> NoRun, cur |-> NoRun]

\* no build is running, the destination is empty
BuildIdle ==
    /\ dest = {}
    /\ bld = [pc |-> "idle", n |-> 0, selector |-> NoSelector,
              split_at |-> NoSplit, stream |-> <<>>, idx |-> 1,
              total_bytes |-> 0, placed |-> <<>>, attempts |-> 0,
              result |-> "none"]
    /\ unix = TRUE

Init ==
    /\ CatalogInit
    /\ scan = [pc |-> "idle", sources |-> <<>>, threads |-> 0, roots |-> <<>>,
               write_failed |-> FALSE, runs |-> 0,
               upserts |-> [p \in Paths |-> 0]]
    /\ ScanIdle
    /\ BuildIdle
    /\ fs = [p \in Paths |-> [content |-> "x", ts |-> NoTimestamp]]

\* the File process_file builds for a path whose file has the given content
\* and timestamp
ScannedFile(path, content, ts) ==
    [path |-> path, size_bytes |-> metadata_len(content),
     blake3 |-> file_hash(content), created_at |-> ts, optimized |-> NoArtifact,
     is_original |-> FALSE, media_type |-> extract_mimetype(path)]

\* process_file on a file without a timestamp: skipped, nothing written
ProcessFileSkip(path) ==
    /\ opt.pc = "idle"
    /\ last' = [op |-> "process_file", ok |-> FALSE, path |-> path]
    /\ UNCHANGED <<files, opt>>
    /\ UNCHANGED scanVars
    /\ UNCHANGED buildVars

\* process_file on a readable file: one upsert under the lock
ProcessFile(path, content, ts) ==
    /\ opt.pc = "idle"
    /\ NewRowid(files) <= MaxRowid
    /\ LET file == ScannedFile(path, content, ts)
       IN  /\ files' = insert_file(files, file)
           /\ last' = [op |-> "process_file", ok |-> TRUE, path |-> path,
                       content |-> content, ts |-> ts,
                       removed |-> Conflicts(files, file)]
    /\ UNCHANGED opt
    /\ UNCHANGED scanVars
    /\ UNCHANGED buildVars

\* stats: the three counts
Stats ==
    /\ opt.pc = "idle"
    /\ last' = [op |-> "stats", total |-> count_files(files),
                redundant |-> count_redundant_files(files),
                originals |-> count_original_files(files)]
    /\ UNCHANGED <<files, opt>>
    /\ UNCHANGED scanVars
    /\ UNCHANGED buildVars

\* the class keys a caller asks find_dup_files about
QueryKeys == {<<"h1", 40>>}

\* a call of find_dup_files
FindDupFiles(blake3, size_bytes) ==
    /\ opt.pc = "idle"
    /\ last' = [op |-> "find_dup_files", blake3 |-> blake3,
                size_bytes |-> size_bytes,
                res |-> find_dup_files(files, blake3, size_bytes)]
    /\ UNCHANGED <<files, opt>>
    /\ UNCHANGED scanVars
    /\ UNCHANGED buildVars

\* the thread that runs a command, as a holder of the catalog mutex
MainThread == NumCpus + 1

\* optimize, up to the query: mark_original_files under a lock of its own,
\* create_dir_all, then db_lock = db.lock(), held until optimize returns
OptimizeStart ==
    /\ opt.pc = "idle"
    /\ lock = 0
    /\ LET m == mark_original_files(files)
       IN  /\ files' = m.tbl
           /\ last' = [op |-> "mark_original_files", ok |-> m.ok]
           /\ opt' = IF m.ok THEN [pc |-> "loop", visited |-> {}] ELSE opt
           /\ lock' = IF m.ok THEN MainThread ELSE 0
    /\ UNCHANGED <<fs, scan, queue, io, hw, hist>>
    /\ UNCHANGED buildVars

\* one iteration of optimize's loop over the unoptimized original videos
OptimizeTranscodeFails(path) ==
    /\ opt.pc = "loop"
    /\ \E r \in FindUnoptimizedVideos(files) :
          r.path = path /\ path \notin opt.visited
    /\ opt' = [opt EXCEPT !.visited = @ \cup {path}]
    /\ last' = [op |-> "transcode", ok |-> FALSE, path |-> path]
    /\ UNCHANGED files
    /\ UNCHANGED scanVars
    /\ UNCHANGED buildVars

\* optimize writing the row back with the size it read
OptimizedFile_KeepSize(r, new_size) ==
    [path |-> r.path, size_bytes |-> r.size_bytes,
     blake3 |-> r.blake3, created_at |-> 2 * r.created_at,
     optimized |-> <<r.blake3, r.size_bytes>>,
     is_original |-> r.is_original,
     media_type |-> r.media_type]

\* the File optimize writes back after a successful transcode: the row as
\* read, with the artifact's byte length and the artifact's path
\* temp/{blake3}_{size_bytes}.mkv
OptimizedFile(r, new_size) ==
    [path |-> r.path, size_bytes |-> new_size,
     blake3 |-> r.blake3, created_at |-> 2 * r.created_at,
     optimized |-> <<r.blake3, r.size_bytes>>,
     is_original |-> r.is_original,
     media_type |-> r.media_type]

OptimizeTranscode(path, new_size) ==
    /\ opt.pc = "loop"
    /\ NewRowid(files) <= MaxRowid
    /\ \E r \in FindUnoptimizedVideos(files) :
          /\ r.path = path /\ path \notin opt.visited
          /\ LET file == OptimizedFile(r, new_size)
             IN  /\ files' = insert_file(files, file)
                 /\ last' = [op |-> "transcode", ok |-> TRUE, path |-> path,
                             new_size |-> new_size, old |-> r,
                             removed |-> Conflicts(files, file)]
    /\ opt' = [opt EXCEPT !.visited = @ \cup {path}]
    /\ UNCHANGED scanVars
    /\ UNCHANGED buildVars

\* the loop ends: the query has no further row (or the insert budget of the
\* model is used up)
OptimizeEnd ==
    /\ opt.pc = "loop"
    /\ opt' = [pc |-> "idle", visited |-> {}]
    /\ last' = [op |-> "optimize_done"]
    /\ lock' = 0
    /\ UNCHANGED files
    /\ UNCHANGED <<fs, scan, queue, io, hw, hist>>
    /\ UNCHANGED buildVars

Next ==
    \/ \E p \in Paths : ProcessFileSkip(p)
    \/ \E p \in Paths, c \in ScanContents, t \in Timestamps : ProcessFile(p, c, t)
    \/ Stats
    \/ \E k \in QueryKeys : FindDupFiles(k[1], k[2])
    \/ OptimizeStart
    \/ \E p \in Paths : OptimizeTranscodeFails(p)
    \/ \E p \in Paths, s \in TranscodedSizes : OptimizeTranscode(p, s)
    \/ OptimizeEnd

Spec == Init /\ [][Next]_vars

----------------------------------------------------------------------------
(* scan: the two pools, the bounded channel, process_file step by step *)

\* capacity of the channel; the program uses 256, the model a capacity the
\* walks of its trees can fill
QueueCapacity == 1

\* the source roots and the regular files WalkDir yields under each
\* (root m/s lies inside root m)
Roots == {"m", "m/s"}

WalkDir(root) ==
    CASE root = "m"   -> {"a.mp4", "b.mp4"}
      [] root = "m/s" -> {"b.mp4"}

SourceLists ==
    UNION {[1..n -> Roots] : n \in 1..MaxSources}

\* what a completed scan leaves: the row count and (hash, size) per path
Projection(tbl) ==
    [count |-> Cardinality(tbl),
     rows  |-> {<<r.path, r.blake3, r.size_bytes>> : r \in tbl}]

\* scan begins: the channel, the shared source list, the two pools.  A
\* behaviour runs the command scan.runs times, over the same --sources.
ScanStart(threads) ==
    /\ scan.pc = "idle"
    /\ opt.pc = "idle"
    /\ hist.n < scan.runs
    /\ scan' = [scan EXCEPT !.pc = "running", !.sources = scan.roots,
                            !.threads = threads, !.write_failed = FALSE,
                            !.upserts = [p \in Paths |-> 0]]
    /\ queue' = <<>>
    /\ io' = [w \in 1..MaxThreads |->
                [pc |-> IF w <= threads THEN "pop" ELSE "off", todo |-> {}]]
    /\ hw' = [w \in 1..NumCpus |->
                [pc |-> "recv", path |-> NULL, file |-> NoFile]]
    /\ UNCHANGED <<fs, lock, hist>>
    /\ UNCHANGED catVars
    /\ UNCHANGED buildVars

\* an I/O worker takes the last source of the shared list, or ends
IoPop(w) ==
    /\ scan.pc = "running"
    /\ io[w].pc = "pop"
    /\ IF scan.sources = <<>>
       THEN /\ io' = [io EXCEPT ![w].pc = "done"]
            /\ UNCHANGED scan
       ELSE LET n == Len(scan.sources)
            IN  /\ scan' = [scan EXCEPT !.sources = SubSeq(@, 1, n - 1)]
                /\ io' = [io EXCEPT ![w] =
                            [pc |-> "walk", todo |-> WalkDir(scan.sources[n])]]
    /\ UNCHANGED <<fs, queue, hw, lock, hist>>
    /\ UNCHANGED catVars
    /\ UNCHANGED buildVars

\* the walk sends its next entry; send blocks while the channel is full
IoSend(w, path) ==
    /\ scan.pc = "running"
    /\ io[w].pc = "walk"
    /\ path \in io[w].todo
    /\ Len(queue) < QueueCapacity
    /\ queue' = Append(queue, path)
    /\ io' = [io EXCEPT ![w] =
                [pc |-> IF io[w].todo = {path} THEN "pop" ELSE "walk",
                 todo |-> io[w].todo \ {path}]]
    /\ UNCHANGED <<fs, scan, hw, lock, hist>>
    /\ UNCHANGED catVars
    /\ UNCHANGED buildVars

\* the sender dropped without the join of the I/O workers
DropSender_BeforeJoin ==
    /\ scan.pc = "running"
    /\ scan' = [scan EXCEPT !.pc = "closed"]
    /\ UNCHANGED <<fs, queue, io, hw, lock, hist>>
    /\ UNCHANGED catVars
    /\ UNCHANGED buildVars

\* the inner scope has joined every I/O worker: drop(sender)
DropSender ==
    /\ scan.pc = "running"
    /\ \A w \in 1..MaxThreads : io[w].pc \in {"off", "done"}
    /\ scan' = [scan EXCEPT !.pc = "closed"]
    /\ UNCHANGED <<fs, queue, io, hw, lock, hist>>
    /\ UNCHANGED catVars
    /\ UNCHANGED buildVars

HwRecv(w) ==
    /\ hw[w].pc = "recv"
    /\ queue # <<>>
    /\ hw' = [hw EXCEPT ![w] = [pc |-> "hash", path |-> Head(queue),
                                file |-> NoFile]]
    /\ queue' = Tail(queue)
    /\ UNCHANGED <<fs, scan, io, lock, hist>>
    /\ UNCHANGED catVars
    /\ UNCHANGED buildVars

\* the channel is empty and disconnected: the worker's loop ends
HwExit(w) ==
    /\ hw[w].pc = "recv"
    /\ queue = <<>>
    /\ scan.pc = "closed"
    /\ hw' = [hw EXCEPT ![w] = [pc |-> "done", path |-> NULL, file |-> NoFile]]
    /\ UNCHANGED <<fs, scan, queue, io, lock, hist>>
    /\ UNCHANGED catVars
    /\ UNCHANGED buildVars

\* process_file before the lock: timestamp, size, hash; a file without a
\* timestamp is reported and the worker takes the next path
HwHash(w) ==
    /\ hw[w].pc = "hash"
    /\ LET f == fs[hw[w].path]
       IN  hw' = IF f.ts = NoTimestamp
                 THEN [hw EXCEPT ![w] = [pc |-> "recv", path |-> NULL,
                                         file |-> NoFile]]
                 ELSE [hw EXCEPT ![w].pc = "lock",
                                 ![w].file = ScannedFile(hw[w].path,
                                                         f.content, f.ts)]
    /\ UNCHANGED <<fs, scan, queue, io, lock, hist>>
    /\ UNCHANGED catVars
    /\ UNCHANGED buildVars

\* a lock that excludes nobody (every worker with a mutex of its own)
HwLock_NoExclusion(w) ==
    /\ hw[w].pc = "lock"
    /\ lock' = w
    /\ hw' = [hw EXCEPT ![w].pc = "insert"]
    /\ UNCHANGED <<fs, scan, queue, io, hist>>
    /\ UNCHANGED catVars
    /\ UNCHANGED buildVars

\* db.lock()
HwLock(w) ==
    /\ hw[w].pc = "lock"
    /\ lock = 0
    /\ lock' = w
    /\ hw' = [hw EXCEPT ![w].pc = "insert"]
    /\ UNCHANGED <<fs, scan, queue, io, hist>>
    /\ UNCHANGED catVars
    /\ UNCHANGED buildVars

\* insert_file, then the guard is dropped as process_file returns; the run
\* counts the upserts of each path
HwInsert(w) ==
    /\ hw[w].pc = "insert"
    /\ lock = w
    /\ files' = insert_file(files, hw[w].file)
    /\ lock' = 0
    /\ hw' = [hw EXCEPT ![w] = [pc |-> "recv", path |-> NULL, file |-> NoFile]]
    /\ scan' = [scan EXCEPT !.upserts[hw[w].path] = @ + 1]
    /\ UNCHANGED <<fs, queue, io, hist>>
    /\ UNCHANGED <<opt, last>>
    /\ UNCHANGED buildVars

\* insert_file returns an error (the catalog file is busy, full or gone):
\* process_file returns it, the guard is dropped, and the worker's loop
\* prints it and takes the next path
HwInsertFails(w) ==
    /\ hw[w].pc = "insert"
    /\ lock = w
    /\ lock' = 0
    /\ hw' = [hw EXCEPT ![w] = [pc |-> "recv", path |-> NULL, file |-> NoFile]]
    /\ scan' = [scan EXCEPT !.write_failed = TRUE]
    /\ UNCHANGED <<fs, queue, io, hist>>
    /\ UNCHANGED catVars
    /\ UNCHANGED buildVars

\* the outer scope has joined every hash worker: scan returns Ok
ScanReturn ==
    /\ scan.pc = "closed"
    /\ \A w \in 1..NumCpus : hw[w].pc = "done"
    /\ scan' = [scan EXCEPT !.pc = "idle", !.sources = <<>>, !.threads = 0]
    /\ io' = [w \in 1..MaxThreads |-> [pc |-> "off", todo |-> {}]]
    /\ hw' = [w \in 1..NumCpus |-> [pc |-> "off", path |-> NULL, file |-> NoFile]]
    /\ hist' = [n |-> hist.n + 1, prev |-> hist.cur,
                cur |-> [sources |-> scan.roots, threads |-> scan.threads,
                         result |-> Projection(files),
                         write_failed |-> scan.write_failed,
                         returned |-> "Ok"]]
    /\ UNCHANGED <<fs, queue, lock>>
    /\ UNCHANGED catVars
    /\ UNCHANGED buildVars

\* the trees a scan can meet: b.mp4 is a copy of a.mp4 or not, and its
\* extractor finds a timestamp or none
FsChoices ==
    {f \in [Paths -> [content : ScanContents, ts : {NoTimestamp, 2}]] :
        /\ f["a.mp4"] = [content |-> "x", ts |-> 2]
        /\ f["c.jpg"] = [content |-> "z", ts |-> 2]}

\* the command is run `runs` times over the --sources drawn here
ScanInitial(runs) ==
    /\ CatalogInit
    /\ scan \in [pc : {"idle"}, sources : {<<>>}, threads : {0},
                 roots : SourceLists, write_failed : {FALSE}, runs : {runs},
                 upserts : {[p \in Paths |-> 0]}]
    /\ ScanIdle
    /\ BuildIdle
    /\ fs \in FsChoices

ScanInit == ScanInitial(2)

ScanNext ==
    \/ \E t \in 0..MaxThreads : ScanStart(t)
    \/ \E w \in 1..MaxThreads : IoPop(w)
    \/ \E w \in 1..MaxThreads, p \in Paths : IoSend(w, p)
    \/ DropSender
    \/ \E w \in 1..NumCpus : HwRecv(w)
    \/ \E w \in 1..NumCpus : HwExit(w)
    \/ \E w \in 1..NumCpus : HwHash(w)
    \/ \E w \in 1..NumCpus : HwLock(w)
    \/ \E w \in 1..NumCpus : HwInsert(w)
    \/ ScanReturn

SpecScan == ScanInit /\ [][ScanNext]_vars

\* scan over a catalog whose writes can fail
ScanFaultNext ==
    \/ ScanNext
    \/ \E w \in 1..NumCpus : HwInsertFails(w)

ScanFaultInit == ScanInitial(1)

SpecScanFault == ScanFaultInit /\ [][ScanFaultNext]_vars

\* the steps of the threads of a running scan: the operating system runs a
\* thread that can take a step
ScanProgress ==
    \/ \E w \in 1..MaxThreads : IoPop(w)
    \/ \E w \in 1..MaxThreads, p \in Paths : IoSend(w, p)
    \/ DropSender
    \/ \E w \in 1..NumCpus : HwRecv(w)
    \/ \E w \in 1..NumCpus : HwExit(w)
    \/ \E w \in 1..NumCpus : HwHash(w)
    \/ \E w \in 1..NumCpus : HwLock(w)
    \/ \E w \in 1..NumCpus : HwInsert(w)
    \/ \E w \in 1..NumCpus : HwInsertFails(w)
    \/ ScanReturn

\* termination does not depend on what the files hold: b.mp4 is a copy of
\* a.mp4, with a timestamp or without
ScanLiveInit ==
    /\ ScanFaultInit
    /\ fs["b.mp4"].content = "x"

SpecScanLive ==
    ScanLiveInit /\ [][ScanFaultNext]_vars /\ WF_vars(ScanProgress)

----------------------------------------------------------------------------
(* build: the representative stream and the placement of each row *)

\* sequences that list every element of S once
Orderings(S) ==
    {s \in [1..Cardinality(S) -> S] :
        \A i, j \in 1..Cardinality(S) : s[i] = s[j] => i = j}

\* the sets holding one row of every class: ROW_NUMBER() numbers the rows of
\* a partition in no stated order, so rn = 1 can be any row of the class
Representatives(tbl) ==
    {{f[k] : k \in ClassKeys(tbl)} :
        f \in {g \in [ClassKeys(tbl) -> tbl] :
                  \A k \in ClassKeys(tbl) : g[k] \in ClassOf(tbl, k)}}

\* FIND_UNIQUE_FILES: one row per class, in no stated order
FindUniqueFiles(tbl) ==
    UNION {Orderings(R) : R \in Representatives(tbl)}

\* FIND_UNIQUE_FILES_ORDERED: the same rows, ORDER BY created_at ASC
FindUniqueFilesOrdered(tbl) ==
    {s \in FindUniqueFiles(tbl) :
        \A i, j \in 1..Len(s) : i < j => s[i].created_at <= s[j].created_at}

\* timestamp.year()
year(created_at) == 2020 + (created_at \div 2)

Selected_Always(selector, media_type) == TRUE

\* the selector test of the loop: FALSE skips the row
Selected(selector, media_type) ==
    selector = NoSelector \/ media_type = selector

shard_number_ZeroBased(total_bytes, split_at) == total_bytes \div split_at

\* the N of shard_N
shard_number(total_bytes, split_at) == (total_bytes \div split_at) + 1

\* dest_dir: shard (0 without sharding), media type, year
dest_dir(total_bytes, split_at, media_type, created_at) ==
    [shard |-> IF split_at # NoSplit
               THEN shard_number(total_bytes, split_at) ELSE 0,
     media |-> media_type, year |-> year(created_at)]

\* an entry name: the formatted time, the suffix (0: none), the extension
FileName(created_at, suffix, ext) ==
    [time |-> created_at, suffix |-> suffix, ext |-> ext]

Exists(tree, dir, name) ==
    \E e \in tree : e.dir = dir /\ e.name = name

\* for i in 1..10: while the current name exists, try the name with _i; the
\* name with _9 is taken without a look at the tree
RECURSIVE Probe(_, _, _, _, _, _)
Probe(tree, dir, created_at, ext, cur, i) ==
    IF i > 9 THEN cur
    ELSE IF Exists(tree, dir, FileName(created_at, cur, ext))
         THEN Probe(tree, dir, created_at, ext, i, i + 1)
         ELSE cur

BuildStart(selector, split_at, stream) ==
    /\ bld.pc = "idle"
    /\ bld.n < MaxBuilds
    /\ stream \in (IF split_at # NoSplit THEN FindUniqueFilesOrdered(files)
                   ELSE FindUniqueFiles(files))
    /\ bld' = [pc |-> "loop", n |-> bld.n + 1, selector |-> selector,
               split_at |-> split_at, stream |-> stream, idx |-> 1,
               total_bytes |-> 0, placed |-> <<>>, attempts |-> 0,
               result |-> "none"]
    /\ UNCHANGED <<dest, unix>>
    /\ UNCHANGED catVars
    /\ UNCHANGED scanVars

\* a row the selector rejects: continue
BuildSkip ==
    /\ bld.pc = "loop"
    /\ bld.idx <= Len(bld.stream)
    /\ ~Selected(bld.selector, extract_mimetype(bld.stream[bld.idx].path))
    /\ bld' = [bld EXCEPT !.idx = @ + 1]
    /\ UNCHANGED <<dest, unix>>
    /\ UNCHANGED catVars
    /\ UNCHANGED scanVars

\* a row the selector accepts: total, directory, name, link or copy.  A link
\* onto an existing name fails and build returns the error; a copy replaces
\* the entry.
BuildPlace ==
    /\ bld.pc = "loop"
    /\ bld.idx <= Len(bld.stream)
    /\ LET file  == bld.stream[bld.idx]
           media == extract_mimetype(file.path)
           ext   == extension(file.path)
           total == bld.total_bytes + file.size_bytes
           dir   == dest_dir(total, bld.split_at, media, file.created_at)
           sfx   == Probe(dest, dir, file.created_at, ext, 0, 1)
           name  == FileName(file.created_at, sfx, ext)
           entry == [dir |-> dir, name |-> name, target |-> file.path]
       IN  /\ Selected(bld.selector, media)
           /\ IF unix /\ Exists(dest, dir, name)
              THEN /\ dest' = dest
                   /\ bld' = [bld EXCEPT !.pc = "idle", !.result = "err",
                                         !.total_bytes = total,
                                         !.attempts = @ + 1]
              ELSE /\ dest' = {e \in dest : ~(e.dir = dir /\ e.name = name)}
                                 \cup {entry}
                   /\ bld' = [bld EXCEPT !.idx = @ + 1,
                                         !.total_bytes = total,
                                         !.attempts = @ + 1,
                                         !.placed = Append(@,
                                             [idx |-> bld.idx, file |-> file,
                                              entry |-> entry])]
    /\ UNCHANGED unix
    /\ UNCHANGED catVars
    /\ UNCHANGED scanVars

\* the stream is exhausted: Ok(())
BuildReturn ==
    /\ bld.pc = "loop"
    /\ bld.idx > Len(bld.stream)
    /\ bld' = [bld EXCEPT !.pc = "idle", !.result = "ok"]
    /\ UNCHANGED <<dest, unix>>
    /\ UNCHANGED catVars
    /\ UNCHANGED scanVars

\* the catalogs a build can meet: the rows scans leave for any tree.  Hashes
\* are opaque and the two videos interchangeable, so the contents are named
\* in the order the paths meet them and a.mp4 is the older video.
BuildContents == {"x", "y", "w", "z"}

BuildTrees ==
    UNION {{t \in [sub -> [content : BuildContents, ts : {2, 4}]] :
               /\ "a.mp4" \in sub => t["a.mp4"].content \in {"x", "z"}
               /\ "b.mp4" \in sub => t["b.mp4"].content \in {"x", "y", "z"}
               /\ "c.jpg" \in sub => t["c.jpg"].content \in {"x", "w", "z"}
               /\ {"a.mp4", "b.mp4"} \subseteq sub =>
                      t["a.mp4"].ts <= t["b.mp4"].ts} :
              sub \in SUBSET Paths}

RECURSIVE Ingest(_, _, _)
Ingest(tbl, tree, todo) ==
    IF todo = {} THEN tbl
    ELSE LET p == CHOOSE q \in todo : TRUE
         IN  Ingest(insert_file(tbl,
                        ScannedFile(p, tree[p].content, tree[p].ts)),
                    tree, todo \ {p})

\* the destination as earlier builds left it: k placements of one video
\* name, under the names the probe gave them
PriorCounts == 0..10

PriorTree(k, split_at) ==
    {[dir |-> [shard |-> IF split_at # NoSplit THEN 1 ELSE 0,
               media |-> "video", year |-> year(1)],
      name |-> FileName(1, i, "mp4"), target |-> "prior.mp4"] : i \in 0..(k - 1)}

BuildInit ==
    /\ \E tree \in BuildTrees : files = Ingest({}, tree, DOMAIN tree)
    /\ opt = [pc |-> "idle", visited |-> {}]
    /\ last = [op |-> "none"]
    /\ scan = [pc |-> "idle", sources |-> <<>>, threads |-> 0, roots |-> <<>>,
               write_failed |-> FALSE, runs |-> 0,
               upserts |-> [p \in Paths |-> 0]]
    /\ ScanIdle
    /\ fs = [p \in Paths |-> [content |-> "x", ts |-> NoTimestamp]]
    /\ bld \in [pc : {"idle"}, n : {0}, selector : Selectors \cup {NoSelector},
                split_at : SplitSizes \cup {NoSplit}, stream : {<<>>},
                idx : {1}, total_bytes : {0}, placed : {<<>>},
                attempts : {0}, result : {"none"}]
    /\ \E k \in PriorCounts : dest = PriorTree(k, bld.split_at)
    /\ unix \in BOOLEAN

\* the command is run again with the arguments it was first given
BuildNext ==
    \/ \E stream \in FindUniqueFiles(files) :
          BuildStart(bld.selector, bld.split_at, stream)
    \/ BuildSkip
    \/ BuildPlace
    \/ BuildReturn

SpecBuild == BuildInit /\ [][BuildNext]_vars

----------------------------------------------------------------------------
(* Properties of the catalog *)

\* the rows of class k that are flagged original
Originals(tbl, k) == {r \in ClassOf(tbl, k) : r.is_original}

\* the rows of class k that no other row of the class precedes in
\* (created_at, insertion order)
Minimal(tbl, k) ==
    {r \in ClassOf(tbl, k) :
        \A s \in ClassOf(tbl, k) :
            \/ r.created_at < s.created_at
            \/ (r.created_at = s.created_at /\ r.rowid <= s.rowid)}

\* C1: immediately after mark_originals() has run, every equivalence class
\* has exactly one row flagged original, and it is the row with the least
\* (created_at, insertion order) of the class.
C1_MarkElectsEarliest ==
    last.op = "mark_original_files" =>
        /\ last.ok
        /\ \A k \in ClassKeys(files) :
              /\ Cardinality(Originals(files, k)) = 1
              /\ Originals(files, k) = Minimal(files, k)

\* C2: in every reachable catalog state at most one row of an equivalence
\* class is flagged original.
C2_AtMostOneOriginal ==
    \A k \in ClassKeys(files) : Cardinality(Originals(files, k)) <= 1

\* an optimized row was written into a class that holds another row, and the
\* write removed the original that class had
C2_Witness ==
    /\ last.op = "transcode" /\ last.ok
    /\ \E gone \in last.removed : gone.path # last.path /\ gone.is_original
    /\ \E r \in files : r.path = last.path /\ r.is_original

\* C3: no two rows ever share a path, and after a path is scanned again its
\* row carries the hash, size and creation time of that scan.
C3_UpsertReplaces ==
    /\ \A r, s \in files : r.path = s.path => r = s
    /\ (last.op = "process_file" /\ last.ok) =>
          \E r \in files :
              /\ r.path = last.path
              /\ r.blake3 = file_hash(last.content)
              /\ r.size_bytes = metadata_len(last.content)
              /\ r.created_at = timestamp(last.ts)

\* a path was scanned a second time with another content and another time
C3_Witness ==
    /\ last.op = "process_file" /\ last.ok
    /\ \E old \in last.removed :
          /\ old.path = last.path
          /\ old.blake3 # file_hash(last.content)
          /\ old.size_bytes # metadata_len(last.content)
          /\ old.created_at # timestamp(last.ts)

\* C5: for every catalog, also an empty one and one without duplicates,
\* count_redundant() returns count_all() minus the number of classes.
C5_RedundantIsTotalMinusClasses ==
    last.op = "stats" =>
        /\ last.redundant.ok
        /\ last.redundant.val = last.total - Cardinality(ClassKeys(files))

\* the paths the catalog holds
PathsOf(tbl) == {r.path : r \in tbl}

\* C11: after optimize has transcoded a row, the row of that path has the
\* hash, the path and the creation time it had, its optimized field is the
\* artifact's path and its size is the artifact's byte length.
C11_OptimizePreservesIdentity ==
    (last.op = "transcode" /\ last.ok) =>
        \E r \in files :
            /\ r.path = last.path
            /\ r.path = last.old.path
            /\ r.blake3 = last.old.blake3
            /\ r.created_at = last.old.created_at
            /\ r.optimized = <<last.old.blake3, last.old.size_bytes>>
            /\ r.size_bytes = last.new_size

\* a transcode produced an artifact of another length than the file's
C11_Witness ==
    /\ last.op = "transcode" /\ last.ok
    /\ last.new_size # last.old.size_bytes
    /\ \E r \in files : r.path = last.path /\ r.optimized # NoArtifact

\* C12: no step of scan, mark_originals or optimize removes a path from the
\* catalog (so count_all() never decreases), also when optimize writes back
\* a row whose new class already holds an original.
C12_NoRowDeleted ==
    [][/\ PathsOf(files) \subseteq PathsOf(files')
       /\ count_files(files) <= count_files(files')]_vars

\* C13: once a path's row has an optimized artifact, no later scan,
\* mark_originals or optimize leaves that path with the field absent.
C13_OptimizedIsStable ==
    [][\A r \in files : \A t \in files' :
          (r.optimized # NoArtifact /\ t.path = r.path)
              => t.optimized # NoArtifact]_vars

\* the step ran the transcoder for a row of optimize's query
Transcoding == opt.pc = "loop" /\ opt'.visited # opt.visited

\* C19: the catalog lock is not held while the external transcoder runs for
\* a row in optimize.
C19_NoLockAcrossTranscode ==
    [][Transcoding => lock = 0]_vars

\* C17: find_duplicates_of(hash, size) succeeds and returns exactly the rows
\* of the catalog with that hash and size, also when there are such rows.
C17_FindDuplicatesReturnsClass ==
    last.op = "find_dup_files" =>
        /\ last.res.ok
        /\ last.res.rows = ClassOf(files, <<last.blake3, last.size_bytes>>)

\* the step wrote the row optimize transcoded
OptimizeWrite == Transcoding /\ last'.ok

\* C22: only mark_originals changes is_original: no step of scan (a re-scan
\* of an original's path included) or of optimize's write-back changes the
\* flag of a path the catalog holds.
C22_OnlyMarkChangesOriginal ==
    [][last'.op # "mark_original_files" =>
          \A r \in files : \A t \in files' :
              t.path = r.path => t.is_original = r.is_original]_vars

\* the rows of the given hash that are flagged original
OriginalsOfHash(tbl, h) == {r \in tbl : r.blake3 = h /\ r.is_original}

\* the classes as sets of paths
Partition(tbl) == {PathsOf(ClassOf(tbl, k)) : k \in ClassKeys(tbl)}

\* C24: optimize leaves the classes as they were: the row it wrote stays in
\* the class of the rows that were its duplicates, the set of classes and
\* count_redundant() are unchanged, and a later mark_originals leaves one
\* original for that content.
C24_OptimizeKeepsClasses ==
    [][/\ OptimizeWrite =>
            /\ \A t \in files' : \A s \in files' :
                  (t.path = last'.path /\ SameClass(s, last'.old))
                      => SameClass(s, t)
            /\ Partition(files') = Partition(files)
            /\ count_redundant_files(files').ok = count_redundant_files(files).ok
            /\ count_redundant_files(files).ok =>
                  count_redundant_files(files').val
                      = count_redundant_files(files).val
       /\ (last'.op = "mark_original_files" /\ last'.ok) =>
            \A r \in files' :
                Cardinality(OriginalsOfHash(files', r.blake3)) <= 1]_vars

----------------------------------------------------------------------------
(* Properties of build *)

\* bytes of the first n rows of the stream that have the selected media type
RECURSIVE PassingTotal(_, _, _)
PassingTotal(stream, selector, n) ==
    IF n = 0 THEN 0
    ELSE PassingTotal(stream, selector, n - 1)
         + (IF selector = NoSelector \/ stream[n].media_type = selector
            THEN stream[n].size_bytes ELSE 0)

PlacedShard(i) == bld.placed[i].entry.dir.shard

\* C6: the stream build consumes holds exactly one row of every equivalence
\* class, build never places two rows of one class, and a build without a
\* selector attempts one placement for every class.
C6_OnePlacementPerClass ==
    /\ bld.pc = "loop" =>
          /\ \A i \in 1..Len(bld.stream) : bld.stream[i] \in files
          /\ Len(bld.stream) = Cardinality(ClassKeys(files))
          /\ \A k \in ClassKeys(files) :
                \E i \in 1..Len(bld.stream) : bld.stream[i] \in ClassOf(files, k)
    /\ \A i, j \in 1..Len(bld.placed) :
          SameClass(bld.placed[i].file, bld.placed[j].file) => i = j
    /\ (bld.pc = "idle" /\ bld.result # "none" /\ bld.selector = NoSelector) =>
          bld.attempts = Cardinality(ClassKeys(files))

\* C7: with sharding requested the stream holds, for every class, a row no
\* other row of the class was created before, and the rows come in
\* non-decreasing created_at order.
C7_OrderedStreamEarliest ==
    (bld.pc = "loop" /\ bld.split_at # NoSplit) =>
        /\ \A i \in 1..Len(bld.stream) : \A r \in files :
              SameClass(r, bld.stream[i]) =>
                  bld.stream[i].created_at <= r.created_at
        /\ \A i, j \in 1..Len(bld.stream) :
              i < j => bld.stream[i].created_at <= bld.stream[j].created_at

\* C8: with sharding, a placed row goes to shard floor(T / split) + 1, T
\* being the bytes of the selected rows of the stream up to and including
\* it; shard numbers never decrease along the stream; sizes 40, 40, 40 under
\* a threshold of 100 go to shards 1, 1, 2.
C8_ShardByRunningTotal ==
    bld.split_at # NoSplit =>
        /\ \A i \in 1..Len(bld.placed) :
              PlacedShard(i) =
                  (PassingTotal(bld.stream, bld.selector, bld.placed[i].idx)
                      \div bld.split_at) + 1
        /\ \A i, j \in 1..Len(bld.placed) :
              i < j => PlacedShard(i) <= PlacedShard(j)
        /\ (/\ bld.split_at = 100
            /\ Len(bld.placed) = 3
            /\ \A i \in 1..3 : bld.placed[i].file.size_bytes = 40)
           => <<PlacedShard(1), PlacedShard(2), PlacedShard(3)>> = <<1, 1, 2>>

\* three selected rows of 40 bytes were placed under a threshold of 100
C8_Witness ==
    /\ bld.split_at = 100
    /\ Len(bld.placed) = 3
    /\ \A i \in 1..3 : bld.placed[i].file.size_bytes = 40
    /\ PlacedShard(3) = 2

\* rows of the stream the loop has dealt with
Processed == IF bld.result = "err" THEN bld.idx ELSE bld.idx - 1

\* C9: under a selector every placed row has the selected media type and
\* lies in that type's directory, and the running total counts the selected
\* rows only.
C9_SelectorFilters ==
    bld.selector # NoSelector =>
        /\ \A i \in 1..Len(bld.placed) :
              /\ bld.placed[i].file.media_type = bld.selector
              /\ bld.placed[i].entry.dir.media = bld.selector
        /\ bld.total_bytes = PassingTotal(bld.stream, bld.selector, Processed)

\* a build with a selector is over; it skipped a row and placed another
C9_Witness ==
    /\ bld.selector # NoSelector
    /\ bld.result = "ok"
    /\ Len(bld.placed) >= 1
    /\ Len(bld.placed) < Len(bld.stream)
    /\ bld.split_at # NoSplit
    /\ bld.total_bytes < PassingTotal(bld.stream, NoSelector, Len(bld.stream))

\* the step placed a row
Placing == Len(bld'.placed) = Len(bld.placed) + 1

NewEntry == bld'.placed[Len(bld'.placed)].entry

\* the names dir holds for the time and extension of name, as suffixes
Taken(tree, dir, name) ==
    {k \in 0..9 : Exists(tree, dir, FileName(name.time, k, name.ext))}

\* the entry went under the first name not taken
FirstFree ==
    /\ NewEntry.name.suffix \notin Taken(dest, NewEntry.dir, NewEntry.name)
    /\ \A k \in 0..9 :
          k < NewEntry.name.suffix =>
              k \in Taken(dest, NewEntry.dir, NewEntry.name)

\* C10 as stated: a placement goes under the plain name, or under the first
\* free suffix _1 .. _9 when the name is taken, and no entry the destination
\* holds is overwritten or replaced.
C10_FirstFreeNeverOverwrites ==
    [][(Placing => FirstFree) /\ dest \subseteq dest']_vars

\* C15: a placement that fails is that row's failure only: when build has
\* returned, every row of the stream, also those after the failed one, has
\* been dealt with.
C15_PlacementFailureDoesNotAbort ==
    (bld.pc = "idle" /\ bld.result # "none") =>
        Processed = Len(bld.stream)

\* bytes of the first n placed rows that went to shard k
RECURSIVE ShardBytes(_, _)
ShardBytes(k, n) ==
    IF n = 0 THEN 0
    ELSE ShardBytes(k, n - 1)
         + (IF PlacedShard(n) = k THEN bld.placed[n].file.size_bytes ELSE 0)

\* C23: with sharding, the rows placed in a shard never add up to more than
\* the split threshold.
C23_ShardWithinBudget ==
    bld.split_at # NoSplit =>
        \A i \in 1..Len(bld.placed) :
            ShardBytes(PlacedShard(i), Len(bld.placed)) <= bld.split_at

----------------------------------------------------------------------------
(* Properties of scan *)

\* C14: a catalog write that fails during scan is fatal to the run: scan
\* returns the error.
C14_WriteFailureIsFatal ==
    (hist.n >= 1 /\ hist.cur.write_failed) => hist.cur.returned = "Err"

\* the hash workers inside process_file's locked section
Holders == {w \in 1..NumCpus : hw[w].pc = "insert"}

\* at most one worker is in the locked section, it is the holder of the
\* mutex, and it came there with the timestamp, the size and the hash of its
\* path computed
LockInv ==
    /\ Cardinality(Holders) <= 1
    /\ \A w \in Holders :
          /\ lock = w
          /\ hw[w].file = ScannedFile(hw[w].path, fs[hw[w].path].content,
                                      fs[hw[w].path].ts)
    /\ Holders = {} => lock = 0

\* a worker enters the locked section from the end of hashing, and leaves it
\* by one upsert or by the upsert's error, with the mutex released
LockStep ==
    \A w \in 1..NumCpus :
        /\ (w \in Holders' /\ w \notin Holders) =>
               hw[w].pc = "lock" /\ lock = 0 /\ files' = files
        /\ (w \in Holders /\ w \notin Holders') =>
               /\ lock' = 0
               /\ hw'[w].pc = "recv"
               /\ \/ files' = insert_file(files, hw[w].file)
                  \/ files' = files /\ scan'.write_failed
        /\ (w \in Holders /\ w \in Holders') => files' = files

\* C18: during scan at most one hash worker holds the catalog lock, a worker
\* takes it only after timestamp extraction and hashing, holds it for one
\* upsert and releases it when process_file returns, with Ok or with Err.
C18_LockDiscipline ==
    [][LockInv /\ LockInv' /\ LockStep]_vars

\* a worker waits for the lock another worker holds, after an upsert of the
\* run has failed and released it
C18_Witness ==
    /\ scan.write_failed
    /\ \E w, v \in 1..NumCpus :
          hw[w].pc = "insert" /\ lock = w /\ hw[v].pc = "lock"

\* the channel is closed with every I/O worker finished
ClosedAfterIo ==
    scan.pc = "closed" => \A w \in 1..MaxThreads : io[w].pc \in {"off", "done"}

\* a path leaves the channel into the hands of exactly one hash worker, which
\* goes on to process it
Handoff ==
    Len(queue') < Len(queue) =>
        /\ queue' = Tail(queue)
        /\ \E w \in 1..NumCpus :
              /\ hw[w].pc = "recv"
              /\ hw'[w].pc = "hash" /\ hw'[w].path = Head(queue)
              /\ \A v \in 1..NumCpus \ {w} :
                    hw'[v].pc = hw[v].pc /\ hw'[v].path = hw[v].path

\* scan returns with every worker joined and nothing left in the channel or
\* in a worker's hands
ReturnsJoined ==
    (scan.pc # "idle" /\ scan'.pc = "idle") =>
        /\ \A w \in 1..MaxThreads : io[w].pc \in {"off", "done"}
        /\ \A w \in 1..NumCpus : hw[w].pc = "done" /\ hw[w].path = NULL
        /\ queue = <<>>

\* C16: for any number of I/O workers, of sources and of files (more files
\* than the channel holds included) scan terminates; the channel is closed
\* only after every I/O worker has finished, every path sent is received by
\* exactly one hash worker, and scan returns after all workers have joined.
C16_ScanTerminates ==
    /\ []ClosedAfterIo
    /\ [][Handoff /\ ReturnsJoined]_vars
    /\ (scan.pc # "idle") ~> (scan.pc = "idle")

\* a run with every I/O worker, over more files than the channel holds, has
\* returned with their rows
C16_Witness ==
    /\ hist.n >= 1
    /\ scan.pc = "idle"
    /\ hist.cur.threads = MaxThreads
    /\ hist.cur.result.count > QueueCapacity

\* a row without its place in the insertion order
Unordered(r) == [f \in DOMAIN r \ {"rowid"} |-> r[f]]

\* the files the walks of the --sources yield
Walked(roots) == UNION {WalkDir(roots[i]) : i \in 1..Len(roots)}

\* the rows the walked files with a timestamp stand for
ScanOutcome ==
    {Unordered(ToRow(ScannedFile(p, fs[p].content, fs[p].ts), 0)) :
        p \in {q \in Walked(scan.roots) : fs[q].ts # NoTimestamp}}

\* C20: for fixed source files every interleaving of the I/O and hash
\* workers ends in the same rows (path, hash, size, created_at, media type,
\* optimized, is_original); only the insertion order may differ.
C20_InterleavingIndependent ==
    (scan.pc = "idle" /\ hist.n >= 1 /\ hist.cur.threads > 0) =>
        /\ {Unordered(r) : r \in files} = ScanOutcome
        /\ Cardinality(files) = Cardinality(ScanOutcome)

\* two I/O workers walked nested roots, so b.mp4 went through the channel
\* twice, and the run has returned with two rows
C20_Witness ==
    /\ scan.pc = "idle" /\ hist.n >= 1
    /\ hist.cur.threads = 2
    /\ scan.roots = <<"m", "m/s">>
    /\ Cardinality(files) = 2
    /\ \E r \in files : r.path = "b.mp4" /\ r.rowid > 2

\* C21: in one run of scan every file found under the source roots is
\* upserted exactly once, also when a root is named twice or lies inside
\* another root.
C21_UpsertedOncePerRun ==
    /\ \A p \in Paths : scan.upserts[p] <= 1
    /\ (scan.pc = "idle" /\ hist.n >= 1 /\ hist.cur.threads > 0) =>
          \A p \in Walked(scan.roots) :
              fs[p].ts # NoTimestamp => scan.upserts[p] = 1

\* two runs over the same sources, both with I/O workers or both without
SameScan(a, b) ==
    /\ a.sources = b.sources
    /\ (a.threads = 0) = (b.threads = 0)

\* C4: a scan repeated over the unchanged tree leaves the row count and the
\* (hash, size) of every path as the first scan left them, whatever the
\* interleaving of the workers.
C4_RescanIdempotent ==
    (hist.n >= 2 /\ SameScan(hist.prev, hist.cur)) =>
        hist.cur.result = hist.prev.result

\* two scans with I/O workers over the same sources have completed and the
\* catalog holds their rows
C4_Witness ==
    /\ hist.n >= 2
    /\ SameScan(hist.prev, hist.cur)
    /\ hist.cur.threads > 0
    /\ hist.cur.result.count >= 2

====
